---- MODULE Spec2Model ----
(***************************************************************************)
(* A model of the Robot Driver automation repository:                      *)
(*   - AIRobotDriver (src/ai_robot_driver.py): the page inspector          *)
(*     get_page_context, the action executor execute_action and the loop   *)
(*     controller execute_goal, with the response parsing it does inline;  *)
(*   - the /execute endpoint in ai mode (src/api.py).                      *)
(* The coroutines run on one asyncio event loop: a coroutine runs without  *)
(* interruption from one await to the next, and another coroutine can run  *)
(* only while it is suspended in an await.                                 *)
(***************************************************************************)
EXTENDS Integers, Sequences, FiniteSets, TLC

\* ------------------------------------------------------------------ bounds
\* Largest max_steps a caller passes.
MaxSteps == 3
\* Largest max_steps of requests that are served together.
MaxStepsApi == 2
\* Largest max_steps of calls that are in flight together on one instance.
MaxStepsShared == 1
\* Longest reasoning string (in tokens) of a provider response.
MaxReason == 2
\* Longest document (in elements) the inspector is run on.
MaxDom == 22
\* Longest document (in elements) execute_action is run on alone.
MaxExecDom == 2

\* ------------------------------------------------------- program constants
\* elements[:20] in get_page_context.
MaxElements == 20

None == "None"

\* ===================================================== response parsing ===
\* A response text is a sequence of tokens:
\*   "F"     three backticks            "json"  the letters json
\*   "tag"   another language tag       "ws"    whitespace or a newline
\*   "x"     a word of prose            "[]"    a JSON array
\*   "{" k t r1 .. rn "}"   a JSON object with "action" k ("nokind": the key
\*                          is absent), "target" t and the "reasoning" string
\*                          r1 .. rn
KindToks == {"navigate", "click", "type", "wait", "done", "scroll", "nokind"}
TargetToks == {"t:0", "t:9", "t:sel"}
ReasonToks == {"x", "F", "json"}

RECURSIVE SeqsUpTo(_, _)
SeqsUpTo(S, n) ==
    IF n = 0 THEN {<<>>}
    ELSE LET shorter == SeqsUpTo(S, n - 1)
         IN  shorter \cup {Append(s, x) : s \in {t \in shorter : Len(t) = n - 1}, x \in S}

\* The text of a JSON action object.
Obj(k, t, r) == <<"{", k, t>> \o r \o <<"}">>

\* str.strip(): whitespace removed at both ends.
RECURSIVE LStrip(_)
LStrip(s) == IF s # <<>> /\ Head(s) = "ws" THEN LStrip(Tail(s)) ELSE s
RECURSIVE RStrip(_)
RStrip(s) ==
    IF s # <<>> /\ s[Len(s)] = "ws" THEN RStrip(SubSeq(s, 1, Len(s) - 1)) ELSE s
Strip(s) == RStrip(LStrip(s))

\* Positions where "```json" / "```" occurs in s.
FenceJsonAt(s) == {i \in 1..(Len(s) - 1) : s[i] = "F" /\ s[i + 1] = "json"}
FenceAt(s) == {i \in 1..Len(s) : s[i] = "F"}
Least(S) == CHOOSE i \in S : \A j \in S : i <= j

\* s.split("```")[0]: the text before the first fence.
UpToFence(s) == IF FenceAt(s) = {} THEN s ELSE SubSeq(s, 1, Least(FenceAt(s)) - 1)

\* execute_goal, "Extract JSON from response".
ExtractJson(text) ==
    IF FenceJsonAt(text) # {}
    THEN Strip(UpToFence(SubSeq(text, Least(FenceJsonAt(text)) + 2, Len(text))))
    ELSE IF FenceAt(text) # {}
    THEN Strip(UpToFence(SubSeq(text, Least(FenceAt(text)) + 1, Len(text))))
    ELSE text

\* json.loads: a dict, another JSON value, or JSONDecodeError.
JsonLoads(text) ==
    LET s == Strip(text)
        n == Len(s)
    IN  IF s = <<"[]">>
        THEN [kind |-> "value", action |-> None, target |-> None, reasoning |-> <<>>]
        ELSE IF /\ n >= 4
                /\ s[1] = "{"
                /\ s[n] = "}"
                /\ s[2] \in KindToks
                /\ s[3] \in TargetToks
                /\ \A i \in 4..(n - 1) : s[i] \in ReasonToks
        THEN [kind |-> "dict",
              action |-> IF s[2] = "nokind" THEN None ELSE s[2],
              target |-> s[3],
              reasoning |-> SubSeq(s, 4, n - 1)]
        ELSE [kind |-> "error", action |-> None, target |-> None, reasoning |-> <<>>]

\* response.text.strip(), the fence stripping and json.loads, as the loop does them.
ParseResponse(text) == JsonLoads(ExtractJson(Strip(text)))

\* A JSON text wrapped in a fenced code block.
FenceStyles == {"bare", "json", "tag"}
Fenced(style, text) ==
    <<"F">> \o (IF style = "bare" THEN <<>> ELSE <<style>>) \o <<"ws">> \o text \o <<"ws", "F">>

\* ====================================================== the document ===
\* An element of the document: its tag name (el.tagName, upper case), its
\* type, name, id and role attributes, and whether reading it raises (the
\* element is detached: every evaluate/get_attribute call on it fails).
Elem(tag, type, name, id, role, bad) ==
    [tag |-> tag, type |-> type, name |-> name, id |-> id, role |-> role, bad |-> bad]
Button == Elem("BUTTON", None, None, None, None, FALSE)
Link == Elem("A", None, None, "nav-logo", None, FALSE)
Submit == Elem("INPUT", "submit", None, None, None, FALSE)
TextInput == Elem("INPUT", "text", "q", None, None, FALSE)
SearchInput == Elem("INPUT", "search", None, None, None, FALSE)
Keywords == Elem("INPUT", "text", "field-keywords", None, None, FALSE)
IdSearch == Elem("INPUT", None, None, "twotabsearchtextbox", None, FALSE)
Div == Elem("DIV", None, None, None, None, FALSE)
RoleButton == Elem("DIV", None, None, None, "button", FALSE)
Detached(e) == [e EXCEPT !.bad = TRUE]

Lower(tag) ==
    CASE tag = "BUTTON" -> "button"
      [] tag = "A" -> "a"
      [] tag = "INPUT" -> "input"
      [] tag = "DIV" -> "div"
      [] OTHER -> tag

\* 'button, a, input, select, textarea, [role="button"], [role="link"]'
InspectSelector(e) ==
    \/ e.tag \in {"BUTTON", "A", "INPUT", "SELECT", "TEXTAREA"}
    \/ e.role \in {"button", "link"}
\* 'button, a, input[type="submit"], [role="button"]'
ClickSelector(e) ==
    \/ e.tag \in {"BUTTON", "A"}
    \/ e.tag = "INPUT" /\ e.type = "submit"
    \/ e.role = "button"
\* 'input[name="field-keywords"], input[id*="search"], input[type="search"], input[type="text"]'
TypeSelector(e) ==
    /\ e.tag = "INPUT"
    /\ \/ e.name = "field-keywords"
       \/ e.id = "twotabsearchtextbox"
       \/ e.type \in {"search", "text"}

\* page.query_selector_all with each selector: the matching elements in
\* document order.
QueryInspect(dom) == SelectSeq(dom, InspectSelector)
QueryClick(dom) == SelectSeq(dom, ClickSelector)
QueryType(dom) == SelectSeq(dom, TypeSelector)

\* ==================================================== page inspector ===
Min(a, b) == IF a <= b THEN a ELSE b

\* A variant of FirstElements that caps the elements that will be listed, not
\* the raw matches.
FirstElementsListed(elements) ==
    LET listed == SelectSeq(elements, LAMBDA e : ~e.bad /\ ~(e.tag = "INPUT" /\ e.type = "submit"))
    IN  SubSeq(listed, 1, Min(Len(listed), MaxElements))

\* elements[:20]
FirstElements(elements) == SubSeq(elements, 1, Min(Len(elements), MaxElements))

\* A variant of ElementIndex: the index of enumerate(), the position among the
\* raw matches.
ElementIndexRaw(collected, i) == i

\* "index": len(context["elements"]), for the element at 0-based position i
\* of the capped query result.
ElementIndex(collected, i) == Len(collected)

\* "Skip submit buttons when reporting to AI"
SkipElement(e) == e.tag = "INPUT" /\ e.type = "submit"

\* The dictionary appended for one element.
ElementInfo(e, index) ==
    [index |-> index,
     tag |-> Lower(e.tag),
     type |-> e.type,
     role |-> IF e.role # None THEN e.role ELSE Lower(e.tag),
     id |-> e.id,
     name |-> e.name]

\* A variant of CollectElements with one try around the whole loop: the first
\* detached element ends the walk with an empty list.
RECURSIVE CollectElementsOrNone(_, _, _)
CollectElementsOrNone(elements, k, collected) ==
    IF k > Len(elements) THEN collected
    ELSE LET e == elements[k]
         IN  IF e.bad THEN <<>>
             ELSE IF SkipElement(e)
             THEN CollectElementsOrNone(elements, k + 1, collected)
             ELSE CollectElementsOrNone(elements, k + 1,
                      Append(collected, ElementInfo(e, ElementIndex(collected, k - 1))))

\* The for loop of get_page_context over enumerate(elements[:20]), from
\* 1-based position k on: a detached element raises and is skipped by the
\* bare except, a submit input is skipped by the continue.
RECURSIVE CollectElements(_, _, _)
CollectElements(elements, k, collected) ==
    IF k > Len(elements) THEN collected
    ELSE LET e == elements[k]
         IN  IF e.bad \/ SkipElement(e)
             THEN CollectElements(elements, k + 1, collected)
             ELSE CollectElements(elements, k + 1,
                      Append(collected, ElementInfo(e, ElementIndex(collected, k - 1))))

NoContext == [url |-> 0, title |-> None, elements |-> <<>>]

\* get_page_context on a page showing dom at url: titleOk / queryOk say
\* whether page.title() and page.query_selector_all() return or raise.
GetPageContext(page, url, dom, titleOk, queryOk) ==
    IF page = 0 THEN NoContext
    ELSE IF titleOk /\ queryOk
    THEN [url |-> url,
          title |-> "title",
          elements |-> CollectElements(
                           FirstElements(QueryInspect(dom)), 1, <<>>)]
    ELSE [url |-> url, title |-> None, elements |-> <<>>]

\* ==================================================== action executor ===
\* str.isdigit() on the target.
IsDigit(target) == target \in {"t:0", "t:9"}
\* int(target)
ToInt(target) == IF target = "t:0" THEN 0 ELSE 9

\* A target that is not a string (a JSON number).
NotString == "n:5"
\* What the awaited page operation of an action does: it returns, or raises
\* PlaywrightTimeoutError, or raises another exception.
PageFaults == {"ok", "timeout", "error"}

\* The selectors of the type action's selector list, one by one.
SelKeywords(e) == e.tag = "INPUT" /\ e.name = "field-keywords"
SelIdSearch(e) == e.tag = "INPUT" /\ e.id = "twotabsearchtextbox"
SelTypeSearch(e) == e.tag = "INPUT" /\ e.type = "search"
SelTypeText(e) == e.tag = "INPUT" /\ e.type = "text"

\* elements[idx] of the click branch's query_selector_all, as a position in
\* the document (0: idx is out of range).
ClickedPosition(dom, idx) ==
    IF idx < Len(QueryClick(dom))
    THEN CHOOSE i \in 1..Len(dom) :
            /\ ClickSelector(dom[i])
            /\ Cardinality({j \in 1..i : ClickSelector(dom[j])}) = idx + 1
    ELSE 0

\* page.query_selector with the selector list of the type branch: the first
\* element of the document that matches any selector of the list, as a
\* position in the document (0: None).
TypeField(dom) ==
    IF \E i \in 1..Len(dom) : TypeSelector(dom[i])
    THEN Least({i \in 1..Len(dom) : TypeSelector(dom[i])})
    ELSE 0

\* value = action.get("value", "")
ValueOf(action) == IF "value" \in DOMAIN action THEN action.value ELSE ""

\* A variant of TypeText that types the target of the action.
TypeTextTarget(action) == action.target

\* The text the type branch fills in: search_box.fill(value).
TypeText(action) == ValueOf(action)

\* What a call of execute_action has done: the boolean it returned or the
\* exception that left it, the position of the element it clicked, and the
\* position of the field it filled, with the text and the Enter key.
NoEffect ==
    [value |-> FALSE, raised |-> None, clicked |-> 0, field |-> 0, text |-> None,
     enter |-> FALSE]
Returns(value) == [NoEffect EXCEPT !.value = value]
Raises(exc) == [NoEffect EXCEPT !.raised = exc]

\* An awaited page operation: its effect when it returns, else the exception.
PageCall(fault, effect) == IF fault = "ok" THEN effect ELSE Raises(fault)

\* A target the page cannot use as a URL or selector raises an error.
TargetFault(target, fault) == IF target \in {"", NotString} THEN "error" ELSE fault

\* The try body of execute_action on a page showing dom.
ExecuteActionTry(action, dom, fault) ==
    LET action_type == action.action
        target == action.target
    IN  CASE action_type = None -> Raises("AttributeError")
          [] action_type = "navigate" ->
                PageCall(TargetFault(target, fault), Returns(TRUE))
          [] action_type = "click" ->
                IF target = NotString THEN Raises("AttributeError")
                ELSE IF IsDigit(target)
                THEN IF ToInt(target) < Len(QueryClick(dom))
                     THEN PageCall(fault,
                              [Returns(TRUE) EXCEPT
                                   !.clicked = ClickedPosition(dom, ToInt(target))])
                     ELSE PageCall(fault, Returns(FALSE))
                ELSE PageCall(TargetFault(target, fault), Returns(TRUE))
          [] action_type = "type" ->
                IF fault # "ok" THEN Returns(FALSE)
                ELSE IF TypeField(dom) = 0 THEN Returns(FALSE)
                ELSE [Returns(TRUE) EXCEPT !.field = TypeField(dom),
                                           !.text = TypeText(action),
                                           !.enter = TRUE]
          [] action_type = "wait" ->
                PageCall(TargetFault(target, fault), Returns(TRUE))
          [] action_type = "done" -> Returns(TRUE)
          [] OTHER -> Returns(FALSE)

\* A variant of ExceptClauses with the clause for PlaywrightTimeoutError alone.
ExceptTimeoutOnly(r) == IF r.raised = "timeout" THEN Returns(FALSE) ELSE r

\* except PlaywrightTimeoutError: return False; except Exception: return False
ExceptClauses(r) == IF r.raised # None THEN Returns(FALSE) ELSE r

\* execute_action(action) on a page showing dom, whose awaited operation
\* behaves as fault says.
ExecuteActionOn(action, dom, fault) == ExceptClauses(ExecuteActionTry(action, dom, fault))

\* The boolean execute_action(action) returns; pageOk says whether the page
\* operation the action needs (goto, click, fill and press, wait_for_selector)
\* returns or raises.
ExecuteAction(action, dom, pageOk) ==
    ExecuteActionOn(action, dom, IF pageOk THEN "ok" ELSE "error").value

\* Whether execute_action reaches an await on the page for this action (an
\* unknown or missing kind returns False without touching the page).
TouchesPage(action) == action.action \in {"navigate", "click", "type", "wait"}

\* ============================================================ state ===
Calls == {1, 2}
Drivers == Calls
Goals == {"find the price"}

VARIABLES
    pc,          \* per call of execute_goal: where the coroutine is
    frame,       \* per call: its arguments and local variables
    inst,        \* per call: the AIRobotDriver instance it runs on (0: none yet)
    drv,         \* per instance: self.playwright, self.browser, self.page
    closeCalls,  \* per browser: how often close() was called on it
    stopCalls,   \* per playwright driver: how often stop() was called on it
    hist,        \* per call: what it has done so far
    ptext, pstyle, pres,   \* response parsing alone: input, fence, results
    doc, snap,             \* page inspection alone: document, snapshot
    ex,          \* execute_action alone: action, document, fault, what it did
    sp,          \* search_product_price: its position and local variables
    http         \* POST /execute: the request and its response

vars == <<pc, frame, inst, drv, closeCalls, stopCalls, hist, ptext, pstyle, pres, doc, snap,
          ex, sp, http>>
loopVars == <<pc, frame, inst, drv, closeCalls, stopCalls, hist>>
parseVars == <<ptext, pstyle, pres>>
inspectVars == <<doc, snap>>
\* What execute_goal and its callers never touch.
aloneVars == <<parseVars, inspectVars, ex, sp, http>>

\* A browser, a page and a playwright driver are named by the call that
\* acquired them; 0 is Python's None.
NoSession == [playwright |-> 0, browser |-> 0, page |-> 0]

NoAction == [kind |-> "none", action |-> None, target |-> None, reasoning |-> <<>>]

NoFrame ==
    [goal |-> None, max_steps |-> 0, step |-> 0,
     result |-> [success |-> FALSE, goal |-> None, steps_taken |-> 0, message |-> <<"">>],
     context |-> NoContext, response_text |-> <<>>, action |-> NoAction,
     success |-> FALSE, target |-> 0]

\* What the inspection whose snapshot waits for the planner has met: the
\* document it walked, or the call that failed.
NoSeen == [dom |-> <<>>, fault |-> None]

NoHist ==
    [acquired |-> {}, inspections |-> 0, plans |-> 0, execs |-> 0, sleeps |-> 0,
     parseFails |-> 0, execFails |-> 0, lastParse |-> None, raisedIn |-> None,
     doneAt |-> 0, doneReason |-> <<>>, foreign |-> {}, seen |-> NoSeen]

\* Positions where the coroutine runs (it holds the event loop), where it is
\* suspended in an await, and where it has ended.
RunningPc == {"loop", "plan", "parse", "exec", "finally"}
AwaitPc == {"aw_start", "aw_launch", "aw_newpage", "aw_title", "aw_query", "aw_page",
            "aw_sleep", "aw_close", "aw_stop"}
EndPc == {"returned", "raised"}

\* No coroutine is running: a suspended one may be resumed, a new one started.
LoopFree == \A d \in Calls : pc[d] \notin RunningPc

Self(c) == drv[inst[c]]

\* The browser of page t is closed, or its driver stopped: every operation on
\* the page raises.
Closed(t) == closeCalls[t] > 0 \/ stopCalls[t] > 0

\* The documents a page shows while the loop runs.
LoopDoms == {<<>>, <<Div, Button>>, <<Keywords, Submit>>, <<Detached(Link), Button>>}

\* The responses the completion provider gives while the loop runs.
LoopResponses ==
    {Obj("done", "t:sel", <<"x">>),
     Fenced("json", Obj("done", "t:sel", <<>>)),
     Fenced("tag", Obj("done", "t:sel", <<"x">>)),
     Fenced("bare", Obj("click", "t:0", <<"x">>)),
     Obj("click", "t:9", <<"x">>),
     Obj("navigate", "t:sel", <<"x">>),
     Obj("type", "t:sel", <<"x">>),
     Obj("wait", "t:sel", <<"x">>),
     Obj("scroll", "t:sel", <<"x">>),
     Obj("nokind", "t:sel", <<"x">>),
     <<"x", "x">>,
     <<"[]">>}

\* ===================================================== execute_goal ===
\* A variant of LoopContinues that runs one iteration too many.
LoopContinuesInclusive(started, max_steps) == started <= max_steps

\* for step in range(max_steps): another iteration follows the ones started.
LoopContinues(started, max_steps) == started < max_steps

\* A variant of IsDone that looks for the terminal signal in the target.
IsDoneTarget(action) == action.target = "done"

\* action.get("action") == "done"
IsDone(action) == action.action = "done"

\* A variant of AfterAction that gives up the run on a failed action.
AfterActionStrict(success) == IF success THEN "aw_sleep" ELSE "finally"

\* What follows execute_action in the loop: the pause, whatever it returned.
AfterAction(success) == "aw_sleep"

\* The entry of execute_goal: the result dictionary, then the await of
\* async_playwright().start().
ExecuteGoal(c, goal, max_steps) ==
    /\ pc[c] = "idle"
    /\ LoopFree
    /\ pc' = [pc EXCEPT ![c] = "aw_start"]
    /\ frame' = [frame EXCEPT ![c] =
            [NoFrame EXCEPT !.goal = goal, !.max_steps = max_steps, !.result.goal = goal]]
    /\ UNCHANGED <<closeCalls, stopCalls, hist>>

\* A variant of Caught that logs the error and goes on with the loop.
CaughtContinue(c, f, what) ==
    /\ pc' = [pc EXCEPT ![c] = "loop"]
    /\ frame' = [frame EXCEPT ![c] =
            [f EXCEPT !.result.message = <<"Error", what>>,
                      !.context = NoContext, !.response_text = <<>>,
                      !.action = NoAction, !.success = FALSE, !.target = 0]]

\* except Exception as e: result["message"] = f"Error: {str(e)}"
Caught(c, f, what) ==
    /\ pc' = [pc EXCEPT ![c] = "finally"]
    /\ frame' = [frame EXCEPT ![c] =
            [f EXCEPT !.result.message = <<"Error", what>>,
                      !.context = NoContext, !.response_text = <<>>,
                      !.action = NoAction, !.success = FALSE, !.target = 0]]

\* self.playwright = await async_playwright().start()
PlaywrightStart(c) ==
    /\ pc[c] = "aw_start"
    /\ LoopFree
    /\ \E ok \in BOOLEAN :
          IF ok
          THEN /\ drv' = [drv EXCEPT ![inst[c]].playwright = c]
               /\ pc' = [pc EXCEPT ![c] = "aw_launch"]
               /\ hist' = [hist EXCEPT ![c].acquired = @ \cup {"playwright"}]
               /\ UNCHANGED frame
          ELSE /\ Caught(c, frame[c], "start")
               /\ hist' = [hist EXCEPT ![c].raisedIn = "start"]
               /\ UNCHANGED drv
    /\ UNCHANGED <<inst, closeCalls, stopCalls, aloneVars>>

\* self.browser = await self.playwright.chromium.launch(headless=True)
Launch(c) ==
    /\ pc[c] = "aw_launch"
    /\ LoopFree
    /\ \E ok \in BOOLEAN :
          IF ok
          THEN /\ drv' = [drv EXCEPT ![inst[c]].browser = c]
               /\ pc' = [pc EXCEPT ![c] = "aw_newpage"]
               /\ hist' = [hist EXCEPT ![c].acquired = @ \cup {"browser"}]
               /\ UNCHANGED frame
          ELSE /\ Caught(c, frame[c], "launch")
               /\ hist' = [hist EXCEPT ![c].raisedIn = "launch"]
               /\ UNCHANGED drv
    /\ UNCHANGED <<inst, closeCalls, stopCalls, aloneVars>>

\* self.page = await self.browser.new_page(); set_default_timeout; the banner.
NewPage(c) ==
    /\ pc[c] = "aw_newpage"
    /\ LoopFree
    /\ \E ok \in BOOLEAN :
          IF ok
          THEN /\ drv' = [drv EXCEPT ![inst[c]].page = c]
               /\ pc' = [pc EXCEPT ![c] = "loop"]
               /\ hist' = [hist EXCEPT ![c].acquired = @ \cup {"page"}]
               /\ UNCHANGED frame
          ELSE /\ Caught(c, frame[c], "new_page")
               /\ hist' = [hist EXCEPT ![c].raisedIn = "new_page"]
               /\ UNCHANGED drv
    /\ UNCHANGED <<inst, closeCalls, stopCalls, aloneVars>>

\* The head of the for loop. Another iteration: steps_taken is set and
\* get_page_context starts (self.page.url is read, page.title() awaited).
\* No more iterations: the message of the exhausted budget, unless the run
\* has succeeded.
LoopHead(c) ==
    /\ pc[c] = "loop"
    /\ LET f == frame[c]
       IN  IF LoopContinues(f.step, f.max_steps)
           THEN /\ frame' = [frame EXCEPT ![c] =
                       [f EXCEPT !.step = f.step + 1,
                                 !.result.steps_taken = f.step + 1,
                                 !.context = [NoContext EXCEPT !.url = Self(c).page],
                                 !.target = Self(c).page]]
                /\ pc' = [pc EXCEPT ![c] = IF Self(c).page = 0 THEN "plan" ELSE "aw_title"]
                /\ hist' = [hist EXCEPT ![c].inspections = @ + 1]
           ELSE /\ frame' = [frame EXCEPT ![c] =
                       [f EXCEPT !.result.message =
                            IF ~f.result.success
                            THEN <<"Reached maximum steps", f.max_steps>> ELSE @]]
                /\ pc' = [pc EXCEPT ![c] = "finally"]
                /\ UNCHANGED hist
    /\ UNCHANGED <<inst, drv, closeCalls, stopCalls, aloneVars>>

\* The operations call c has made on a session that another call acquired.
Foreign(c, t, what) == IF t # c THEN {what} ELSE {}

\* get_page_context resumes from await self.page.title(): on a fault the
\* except branch returns the URL alone, otherwise query_selector_all is
\* awaited on self.page.
Title(c) ==
    /\ pc[c] = "aw_title"
    /\ LoopFree
    /\ LET f == frame[c]
           t == f.target
       IN  \E ok \in BOOLEAN :
              /\ Closed(t) => ~ok
              /\ IF ok
                 THEN /\ frame' = [frame EXCEPT ![c].target = Self(c).page]
                      /\ pc' = [pc EXCEPT ![c] = "aw_query"]
                 ELSE /\ frame' = [frame EXCEPT ![c] =
                             [f EXCEPT !.context =
                                  GetPageContext(t, Self(c).page, <<>>, FALSE, TRUE),
                                       !.target = 0]]
                      /\ pc' = [pc EXCEPT ![c] = "plan"]
              /\ hist' = [hist EXCEPT
                     ![c].foreign = @ \cup Foreign(c, t, "inspect"),
                     ![c].seen = IF ok THEN @ ELSE [dom |-> <<>>, fault |-> "title"]]
    /\ UNCHANGED <<inst, drv, closeCalls, stopCalls, aloneVars>>

\* get_page_context resumes from await self.page.query_selector_all(...) and
\* walks the elements.
Query(c) ==
    /\ pc[c] = "aw_query"
    /\ LoopFree
    /\ LET f == frame[c]
           t == f.target
       IN  \E ok \in BOOLEAN, dom \in LoopDoms :
              /\ Closed(t) => ~ok
              /\ frame' = [frame EXCEPT ![c] =
                     [f EXCEPT !.context =
                          GetPageContext(t, IF ok THEN f.context.url ELSE Self(c).page,
                                         dom, TRUE, ok),
                               !.target = 0]]
              /\ pc' = [pc EXCEPT ![c] = "plan"]
              /\ hist' = [hist EXCEPT
                     ![c].foreign = @ \cup Foreign(c, t, "inspect"),
                     ![c].seen = IF ok THEN [dom |-> dom, fault |-> "ok"]
                                 ELSE [dom |-> <<>>, fault |-> "query"]]
    /\ UNCHANGED <<inst, drv, closeCalls, stopCalls, aloneVars>>

\* prompt = create_action_prompt(goal, context);
\* response = self.model.generate_content(prompt); response.text
Plan(c) ==
    /\ pc[c] = "plan"
    /\ LET f == frame[c]
       IN  \E ok \in BOOLEAN :
              IF ok
              THEN \E text \in LoopResponses :
                      /\ frame' = [frame EXCEPT ![c] =
                             [f EXCEPT !.context = NoContext, !.response_text = text]]
                      /\ pc' = [pc EXCEPT ![c] = "parse"]
                      /\ hist' = [hist EXCEPT ![c] =
                             IF hist[c].doneAt = 0 /\ ParseResponse(text).action = "done"
                             THEN [@ EXCEPT !.plans = @ + 1, !.doneAt = f.step,
                                            !.doneReason = ParseResponse(text).reasoning,
                                            !.seen = NoSeen]
                             ELSE [@ EXCEPT !.plans = @ + 1, !.seen = NoSeen]]
              ELSE /\ Caught(c, f, "generate_content")
                   /\ hist' = [hist EXCEPT ![c].plans = @ + 1,
                                           ![c].raisedIn = "generate_content",
                                           ![c].seen = NoSeen]
    /\ UNCHANGED <<inst, drv, closeCalls, stopCalls, aloneVars>>

\* "Parse AI response" and "Check if done": JSONDecodeError continues with the
\* next iteration; a value without .get raises AttributeError into the outer
\* except; done sets the result and breaks; anything else goes to execute_action.
Parse(c) ==
    /\ pc[c] = "parse"
    /\ LET f == frame[c]
           a == ParseResponse(f.response_text)
       IN  CASE a.kind = "error" ->
                  /\ frame' = [frame EXCEPT ![c].response_text = <<>>]
                  /\ pc' = [pc EXCEPT ![c] = "loop"]
                  /\ hist' = [hist EXCEPT ![c].lastParse = "decode_error",
                                          ![c].parseFails = @ + 1]
             [] a.kind = "value" ->
                  /\ Caught(c, f, "AttributeError")
                  /\ hist' = [hist EXCEPT ![c].lastParse = "not_object",
                                          ![c].raisedIn = "parse"]
             [] a.kind = "dict" /\ IsDone(a) ->
                  /\ frame' = [frame EXCEPT ![c] =
                         [f EXCEPT !.response_text = <<>>,
                                   !.result.success = TRUE,
                                   !.result.message = <<"Goal completed", a.reasoning>>]]
                  /\ pc' = [pc EXCEPT ![c] = "finally"]
                  /\ hist' = [hist EXCEPT ![c].lastParse = "ok"]
             [] OTHER ->
                  /\ frame' = [frame EXCEPT ![c] =
                         [f EXCEPT !.response_text = <<>>, !.action = a]]
                  /\ pc' = [pc EXCEPT ![c] = "exec"]
                  /\ hist' = [hist EXCEPT ![c].lastParse = "ok"]
    /\ UNCHANGED <<inst, drv, closeCalls, stopCalls, aloneVars>>

\* success = await self.execute_action(action), up to its first await: a
\* missing kind (None has no .upper()) and an unknown kind give False at once,
\* the other kinds await an operation on self.page.
ExecuteActionCall(c) ==
    /\ pc[c] = "exec"
    /\ LET f == frame[c]
       IN  IF TouchesPage(f.action)
           THEN /\ frame' = [frame EXCEPT ![c].target = Self(c).page]
                /\ pc' = [pc EXCEPT ![c] = "aw_page"]
                /\ hist' = [hist EXCEPT ![c].execs = @ + 1]
           ELSE LET success == ExecuteAction(f.action, <<>>, TRUE)
                IN  /\ frame' = [frame EXCEPT ![c].success = success]
                    /\ pc' = [pc EXCEPT ![c] = AfterAction(success)]
                    /\ hist' = [hist EXCEPT ![c].execs = @ + 1,
                                            ![c].execFails = IF success THEN @ ELSE @ + 1]
    /\ UNCHANGED <<inst, drv, closeCalls, stopCalls, aloneVars>>

\* execute_action resumes from its page operations and returns; the loop
\* prints the warning on False.
PageOp(c) ==
    /\ pc[c] = "aw_page"
    /\ LoopFree
    /\ LET f == frame[c]
           t == f.target
       IN  \E ok \in BOOLEAN, dom \in LoopDoms :
              /\ Closed(t) => ~ok
              /\ LET success == ExecuteAction(f.action, dom, ok)
                 IN  /\ frame' = [frame EXCEPT ![c].success = success, ![c].target = 0]
                     /\ pc' = [pc EXCEPT ![c] = AfterAction(success)]
                     /\ hist' = [hist EXCEPT
                            ![c].execFails = IF success THEN @ ELSE @ + 1,
                            ![c].foreign = @ \cup Foreign(c, t, "act")]
    /\ UNCHANGED <<inst, drv, closeCalls, stopCalls, aloneVars>>

\* await asyncio.sleep(1), "Small delay between actions", then the loop head.
Sleep(c) ==
    /\ pc[c] = "aw_sleep"
    /\ LoopFree
    /\ frame' = [frame EXCEPT ![c].action = NoAction, ![c].success = FALSE]
    /\ pc' = [pc EXCEPT ![c] = "loop"]
    /\ hist' = [hist EXCEPT ![c].sleeps = @ + 1]
    /\ UNCHANGED <<inst, drv, closeCalls, stopCalls, aloneVars>>

\* The local variables of a call that has ended.
Ended(f) ==
    [f EXCEPT !.context = NoContext, !.response_text = <<>>, !.action = NoAction,
              !.success = FALSE, !.target = 0]

\* finally: if self.browser: await self.browser.close() ...
Finally(c) ==
    /\ pc[c] = "finally"
    /\ IF Self(c).browser # 0
       THEN /\ frame' = [frame EXCEPT ![c] = [Ended(@) EXCEPT !.target = Self(c).browser]]
            /\ pc' = [pc EXCEPT ![c] = "aw_close"]
       ELSE IF Self(c).playwright # 0
       THEN /\ frame' = [frame EXCEPT ![c] = [Ended(@) EXCEPT !.target = Self(c).playwright]]
            /\ pc' = [pc EXCEPT ![c] = "aw_stop"]
       ELSE /\ frame' = [frame EXCEPT ![c] = Ended(@)]
            /\ pc' = [pc EXCEPT ![c] = "returned"]
    /\ UNCHANGED <<inst, drv, closeCalls, stopCalls, hist, aloneVars>>

\* ... resumed from self.browser.close(): if it raised, the exception leaves
\* execute_goal; otherwise if self.playwright: await self.playwright.stop()
BrowserClose(c) ==
    /\ pc[c] = "aw_close"
    /\ LoopFree
    /\ LET t == frame[c].target
       IN  /\ closeCalls' = [closeCalls EXCEPT ![t] = @ + 1]
           /\ hist' = [hist EXCEPT ![c].foreign = @ \cup Foreign(c, t, "close")]
           /\ \E ok \in BOOLEAN :
                 IF ~ok
                 THEN /\ frame' = [frame EXCEPT ![c].target = 0]
                      /\ pc' = [pc EXCEPT ![c] = "raised"]
                 ELSE IF Self(c).playwright # 0
                 THEN /\ frame' = [frame EXCEPT ![c].target = Self(c).playwright]
                      /\ pc' = [pc EXCEPT ![c] = "aw_stop"]
                 ELSE /\ frame' = [frame EXCEPT ![c].target = 0]
                      /\ pc' = [pc EXCEPT ![c] = "returned"]
    /\ UNCHANGED <<inst, drv, stopCalls, aloneVars>>

\* ... resumed from self.playwright.stop(); then return result.
PlaywrightStop(c) ==
    /\ pc[c] = "aw_stop"
    /\ LoopFree
    /\ LET t == frame[c].target
       IN  /\ stopCalls' = [stopCalls EXCEPT ![t] = @ + 1]
           /\ hist' = [hist EXCEPT ![c].foreign = @ \cup Foreign(c, t, "stop")]
           /\ frame' = [frame EXCEPT ![c].target = 0]
           /\ \E ok \in BOOLEAN : pc' = [pc EXCEPT ![c] = IF ok THEN "returned" ELSE "raised"]
    /\ UNCHANGED <<inst, drv, closeCalls, aloneVars>>

\* One step of a call of execute_goal that has started.
Step(c) ==
    \/ PlaywrightStart(c)
    \/ Launch(c)
    \/ NewPage(c)
    \/ LoopHead(c)
    \/ Title(c)
    \/ Query(c)
    \/ Plan(c)
    \/ Parse(c)
    \/ ExecuteActionCall(c)
    \/ PageOp(c)
    \/ Sleep(c)
    \/ Finally(c)
    \/ BrowserClose(c)
    \/ PlaywrightStop(c)

\* ------------------------------------------------------------ callers
NoParse == [done |-> FALSE, fenced |-> NoAction, plain |-> NoAction]
NoSnap == [done |-> FALSE, context |-> NoContext]

InitLoop ==
    /\ pc = [c \in Calls |-> "idle"]
    /\ frame = [c \in Calls |-> NoFrame]
    /\ drv = [d \in Drivers |-> NoSession]
    /\ closeCalls = [c \in Calls |-> 0]
    /\ stopCalls = [c \in Calls |-> 0]
    /\ hist = [c \in Calls |-> NoHist]

NoParsing ==
    /\ ptext = <<>>
    /\ pstyle = "bare"
    /\ pres = NoParse

NoInspection ==
    /\ doc = <<>>
    /\ snap = NoSnap

\* No call of execute_action alone.
NoExec ==
    [done |-> FALSE,
     action |-> [kind |-> "dict", action |-> None, target |-> "", reasoning |-> <<>>,
                 value |-> ""],
     dom |-> <<>>, fault |-> "ok", res |-> NoEffect]

NoExecuting == ex = NoExec

\* A variant of SearchResult that reports the default product.
SearchResultDefault(product_name) ==
    [success |-> FALSE, message |-> <<"">>, product |-> "wireless mouse", price |-> None]

\* result = {"success": False, "message": "", "product": product_name,
\* "price": None} of search_product_price.
SearchResult(product_name) ==
    [success |-> FALSE, message |-> <<"">>, product |-> product_name, price |-> None]

\* search_product_price before it is called: browser is None, page is not
\* bound yet. met is what the selector loop that has just run has met on the
\* page, selector by selector.
NoSearch ==
    [pc |-> "idle", product_name |-> None, result |-> SearchResult(None),
     browser |-> FALSE, page |-> FALSE, search_box |-> 0, product_title |-> None,
     exc |-> None, met |-> <<>>]

NoSearching == sp = NoSearch

\* TaskResponse with every optional field at its default.
NoBody ==
    [success |-> FALSE, message |-> <<>>, mode |-> None, price |-> None,
     product |-> None, steps_taken |-> None]

\* No request yet: mode and key (whether GEMINI_API_KEY is set) of the
\* request, status, detail and body of its response.
NoHttp ==
    [pc |-> "idle", mode |-> None, key |-> FALSE, status |-> 0, detail |-> <<>>,
     body |-> NoBody]

NoRequest == http = NoHttp

\* main(): driver = AIRobotDriver(); result = await driver.execute_goal(goal).
\* One instance, one call on it.
Init ==
    /\ InitLoop
    /\ NoExecuting
    /\ NoSearching
    /\ NoRequest
    /\ NoParsing
    /\ NoInspection
    /\ inst = [c \in Calls |-> 1]

Call(c) ==
    /\ \A d \in Calls \ {c} : pc[d] = "idle"
    /\ \E goal \in Goals, max_steps \in 0..MaxSteps : ExecuteGoal(c, goal, max_steps)
    /\ UNCHANGED <<inst, drv, aloneVars>>

Next == \E c \in Calls : Call(c) \/ Step(c)

Spec == Init /\ [][Next]_vars

\* One instance whose execute_goal is called again while a call is in flight.
CallInFlight(c) ==
    /\ \E goal \in Goals, max_steps \in 0..MaxStepsShared : ExecuteGoal(c, goal, max_steps)
    /\ UNCHANGED <<inst, drv, aloneVars>>

NextShared == \E c \in Calls : CallInFlight(c) \/ Step(c)

SharedSpec == Init /\ [][NextShared]_vars

\* One instance whose execute_goal is called again after the earlier call has
\* ended: self.playwright, self.browser and self.page are as that call left
\* them.
CallAgain(c) ==
    /\ \A d \in Calls : d < c => pc[d] \in EndPc
    /\ \A d \in Calls : d > c => pc[d] = "idle"
    /\ \E goal \in Goals, max_steps \in 0..MaxStepsShared : ExecuteGoal(c, goal, max_steps)
    /\ UNCHANGED <<inst, drv, aloneVars>>

NextSeq == \E c \in Calls : CallAgain(c) \/ Step(c)

SeqSpec == Init /\ [][NextSeq]_vars

\* A variant of NewDriver that hands every request the same instance.
SingletonDriver(r) == 1

\* driver = AIRobotDriver() in execute_task: a new instance for the request.
NewDriver(r) == r

\* POST /execute in ai mode with GEMINI_API_KEY set: the driver is constructed
\* (its page, browser and playwright are None) and execute_goal is awaited
\* with the request's message and max_steps (1..50 by the request model).
ExecuteTask(r) ==
    /\ inst' = [inst EXCEPT ![r] = NewDriver(r)]
    /\ drv' = [drv EXCEPT ![NewDriver(r)] = NoSession]
    /\ \E message \in Goals, max_steps \in 1..MaxStepsApi : ExecuteGoal(r, message, max_steps)
    /\ UNCHANGED <<aloneVars>>

InitApi ==
    /\ InitLoop
    /\ NoExecuting
    /\ NoSearching
    /\ NoRequest
    /\ NoParsing
    /\ NoInspection
    /\ inst = [r \in Calls |-> 0]

NextApi == \E r \in Calls : ExecuteTask(r) \/ Step(r)

ApiSpec == InitApi /\ [][NextApi]_vars

\* ------------------------------------------- response parsing alone
JsonTexts == {Obj(k, t, r) : k \in KindToks, t \in TargetToks, r \in SeqsUpTo(ReasonToks, MaxReason)}

InitParse ==
    /\ InitLoop
    /\ NoExecuting
    /\ NoSearching
    /\ NoRequest
    /\ NoInspection
    /\ inst = [c \in Calls |-> 0]
    /\ ptext \in JsonTexts
    /\ pstyle \in FenceStyles
    /\ pres = NoParse

\* The loop's parse of the fenced text and of the same text unfenced.
ParseBoth ==
    /\ ~pres.done
    /\ pres' = [done |-> TRUE,
                fenced |-> ParseResponse(Fenced(pstyle, ptext)),
                plain |-> ParseResponse(ptext)]
    /\ UNCHANGED <<loopVars, ptext, pstyle, inspectVars, ex, sp, http>>

ParseSpec == InitParse /\ [][ParseBoth]_vars

\* ------------------------------------------------ page inspection alone
\* Documents of up to MaxDom elements: buttons and text inputs, with a submit
\* input at s, a detached element at b and a non-interactive element at d.
DocAt(i, s, b, d) ==
    IF i = s THEN Submit
    ELSE IF i = b THEN Detached(Button)
    ELSE IF i = d THEN Div
    ELSE IF i % 2 = 0 THEN TextInput ELSE Button

Docs ==
    {[i \in 1..n |-> DocAt(i, s, b, d)] :
        n \in 0..MaxDom, s \in 0..MaxDom, b \in 0..MaxDom, d \in {0, 1, MaxElements}}

InitInspect ==
    /\ InitLoop
    /\ NoExecuting
    /\ NoSearching
    /\ NoRequest
    /\ NoParsing
    /\ inst = [c \in Calls |-> 0]
    /\ doc \in Docs
    /\ snap = NoSnap

\* get_page_context on a page showing doc.
Inspect ==
    /\ ~snap.done
    /\ \E titleOk \in BOOLEAN, queryOk \in BOOLEAN :
          snap' = [done |-> TRUE, context |-> GetPageContext(1, 1, doc, titleOk, queryOk)]
    /\ UNCHANGED <<loopVars, parseVars, doc, ex, sp, http>>

InspectSpec == InitInspect /\ [][Inspect]_vars

\* ============================================== execute_action alone ===
\* The action dictionaries: the kinds of the prompt, a missing kind and an
\* unknown one; an index, a selector, an empty and a non-string target; an
\* empty and a proper value.
ExecKinds == {None, "navigate", "click", "type", "wait", "done", "scroll"}
ExecTargets == TargetToks \cup {"", NotString}
ExecValues == {"", "wireless mouse"}
ExecActions ==
    {[kind |-> "dict", action |-> k, target |-> t, reasoning |-> <<>>, value |-> v] :
        k \in ExecKinds, t \in ExecTargets, v \in ExecValues}

\* Documents of up to MaxExecDom elements.
ExecElems ==
    {Button, Link, Submit, TextInput, SearchInput, Keywords, IdSearch, Div, RoleButton}
ExecDoms == SeqsUpTo(ExecElems, MaxExecDom)

InitExec ==
    /\ InitLoop
    /\ NoParsing
    /\ NoInspection
    /\ NoSearching
    /\ NoRequest
    /\ inst = [c \in Calls |-> 0]
    /\ ex \in [done : {FALSE}, action : ExecActions, dom : ExecDoms,
               fault : PageFaults, res : {NoEffect}]

\* success = await self.execute_action(action) on a page showing ex.dom.
Execute ==
    /\ ~ex.done
    /\ ex' = [ex EXCEPT !.done = TRUE,
                        !.res = ExecuteActionOn(ex.action, ex.dom, ex.fault)]
    /\ UNCHANGED <<loopVars, parseVars, inspectVars, sp, http>>

ExecSpec == InitExec /\ [][Execute]_vars

\* ====================================== search_product_price (basic) ===
Products == {"wireless mouse", "usb hub"}

\* What an await on the browser can raise: PlaywrightTimeoutError or any
\* other exception.
Faults == {"timeout", "error"}

\* Text of the element a selector finds: "absent" when query_selector gives
\* None, else its inner_text: empty, blank or a proper text.
ElementTexts == {"absent", "", " ", "text"}
TitleSelectors == 1..5
PriceSelectors == 1..3
TitleOf == <<"title1", "title2", "title3", "title4", "title5">>
PriceOf == <<"price1", "price2", "price3">>

\* str.strip() on an inner_text.
StripText(t) == IF t = " " THEN "" ELSE t

\* for selector in search_box_selectors: the first selector whose
\* wait_for_selector returns an element; a timeout moves on to the next.
FirstSearchBox(found) ==
    IF \E i \in DOMAIN found : found[i]
    THEN Least({i \in DOMAIN found : found[i]})
    ELSE 0

\* A variant of ProductTitle in which the last selector with a non-blank text
\* wins.
ProductTitleLast(texts, i) ==
    LET good == {j \in i..Len(texts) : texts[j] \in {"text"}}
    IN  IF good = {} THEN "Unknown"
        ELSE TitleOf[CHOOSE j \in good : \A k \in good : k <= j]

\* for selector in title_selectors: the stripped text of the first selector
\* whose element exists and has a non-blank text, else "Unknown".
RECURSIVE ProductTitle(_, _)
ProductTitle(texts, i) ==
    IF i > Len(texts) THEN "Unknown"
    ELSE IF texts[i] # "absent" /\ texts[i] # "" /\ StripText(texts[i]) # ""
         THEN TitleOf[i]
         ELSE ProductTitle(texts, i + 1)

\* for selector in price_selectors: price_text is overwritten by the text of
\* every element that exists, and the loop stops at the first non-empty text.
RECURSIVE PriceText(_, _, _)
PriceText(texts, i, price_text) ==
    IF i > Len(texts) THEN price_text
    ELSE IF texts[i] = "absent" THEN PriceText(texts, i + 1, price_text)
    ELSE IF texts[i] = "text" THEN PriceOf[i]
    ELSE IF texts[i] = " " THEN " "
    ELSE PriceText(texts, i + 1, "")

\* if price_text: ... else: ...
PriceResult(result, product_title, price_text) ==
    IF price_text # None /\ price_text # ""
    THEN [result EXCEPT !.success = TRUE,
                        !.message = <<"Success! Product", product_title, "found">>,
                        !.price = StripText(price_text)]
    ELSE [result EXCEPT !.message = <<"Product found but price not available">>]

\* What search_product_price never touches.
searchOthers == <<loopVars, parseVars, inspectVars, ex, http>>

\* An await of the try body raises.
SpRaise(kind) == sp' = [sp EXCEPT !.pc = "except", !.exc = kind, !.met = <<>>]

\* search_product_price(product_name) is called.
SearchProductPrice(product_name) ==
    /\ sp.pc = "idle"
    /\ sp' = [NoSearch EXCEPT !.pc = "enter", !.product_name = product_name,
                              !.result = SearchResult(product_name)]
    /\ UNCHANGED searchOthers

\* async with async_playwright() as p
SpEnter ==
    /\ sp.pc = "enter"
    /\ \/ sp' = [sp EXCEPT !.pc = "launch"]
       \/ \E kind \in Faults : SpRaise(kind)
    /\ UNCHANGED searchOthers

\* browser = await p.chromium.launch(headless=True)
SpLaunch ==
    /\ sp.pc = "launch"
    /\ \/ sp' = [sp EXCEPT !.pc = "new_page", !.browser = TRUE]
       \/ \E kind \in Faults : SpRaise(kind)
    /\ UNCHANGED searchOthers

\* page = await browser.new_page()
SpNewPage ==
    /\ sp.pc = "new_page"
    /\ \/ sp' = [sp EXCEPT !.pc = "goto", !.page = TRUE]
       \/ \E kind \in Faults : SpRaise(kind)
    /\ UNCHANGED searchOthers

\* await page.goto(...); await asyncio.sleep(2)
SpGoto ==
    /\ sp.pc = "goto"
    /\ \/ sp' = [sp EXCEPT !.pc = "search_box"]
       \/ \E kind \in Faults : SpRaise(kind)
    /\ UNCHANGED searchOthers

\* The search box loop; without a search box the result is returned from
\* inside the async with block.
SpSearchBox ==
    /\ sp.pc = "search_box"
    /\ \E found \in [1..3 -> BOOLEAN] :
          LET search_box == FirstSearchBox(found) IN
          IF search_box = 0
          THEN sp' = [sp EXCEPT !.pc = "exit", !.met = found,
                                !.result.message = <<"Could not find search box on Amazon">>]
          ELSE sp' = [sp EXCEPT !.pc = "fill", !.met = found, !.search_box = search_box]
    /\ UNCHANGED searchOthers

\* await search_box.fill(product_name); await search_box.press("Enter")
SpFill ==
    /\ sp.pc = "fill"
    /\ \/ sp' = [sp EXCEPT !.pc = "results", !.met = <<>>]
       \/ \E kind \in Faults : SpRaise(kind)
    /\ UNCHANGED searchOthers

\* await page.wait_for_selector('[data-component-type="s-search-result"]')
SpWaitResults ==
    /\ sp.pc = "results"
    /\ \/ sp' = [sp EXCEPT !.pc = "first_result"]
       \/ \E kind \in Faults : SpRaise(kind)
    /\ UNCHANGED searchOthers

\* first_result = await page.query_selector(...); if not first_result: return
SpFirstResult ==
    /\ sp.pc = "first_result"
    /\ \/ sp' = [sp EXCEPT !.pc = "title"]
       \/ sp' = [sp EXCEPT !.pc = "exit", !.result.message = <<"No search results found">>]
       \/ \E kind \in Faults : SpRaise(kind)
    /\ UNCHANGED searchOthers

\* The title loop.
SpTitle ==
    /\ sp.pc = "title"
    /\ \/ \E texts \in [TitleSelectors -> ElementTexts] :
             sp' = [sp EXCEPT !.pc = "price", !.met = texts,
                              !.product_title = ProductTitle(texts, 1)]
       \/ \E kind \in Faults : SpRaise(kind)
    /\ UNCHANGED searchOthers

\* The price loop and the result it gives.
SpPrice ==
    /\ sp.pc = "price"
    /\ \/ \E texts \in [PriceSelectors -> ElementTexts] :
             sp' = [sp EXCEPT !.pc = "close", !.met = texts,
                              !.result = PriceResult(sp.result, sp.product_title,
                                                     PriceText(texts, 1, None))]
       \/ \E kind \in Faults : SpRaise(kind)
    /\ UNCHANGED searchOthers

\* await browser.close() at the end of the block.
SpClose ==
    /\ sp.pc = "close"
    /\ \/ sp' = [sp EXCEPT !.pc = "exit", !.met = <<>>]
       \/ \E kind \in Faults : SpRaise(kind)
    /\ UNCHANGED searchOthers

\* Leaving the async with block (at its end or by return): the playwright
\* driver is stopped.
SpExit ==
    /\ sp.pc = "exit"
    /\ \/ sp' = [sp EXCEPT !.pc = "finally", !.met = <<>>]
       \/ \E kind \in Faults : SpRaise(kind)
    /\ UNCHANGED searchOthers

\* except PlaywrightTimeoutError / except Exception. The timeout handler
\* reads the local page: when the timeout came before page was assigned, the
\* read raises UnboundLocalError inside the handler.
SpExcept ==
    /\ sp.pc = "except"
    /\ IF sp.exc = "timeout"
       THEN sp' = [sp EXCEPT
                     !.pc = "finally",
                     !.result.message = <<"Timeout error">>,
                     !.exc = IF sp.page THEN None ELSE "UnboundLocalError"]
       ELSE sp' = [sp EXCEPT
                     !.pc = "finally",
                     !.result.message = <<"Error occurred", sp.exc>>,
                     !.exc = None]
    /\ UNCHANGED searchOthers

\* finally: if browser: try: await browser.close() except: pass; then the
\* result is returned, or the exception raised in the handler goes on.
SpFinally ==
    /\ sp.pc = "finally"
    /\ sp' = [sp EXCEPT !.pc = IF sp.exc = None THEN "returned" ELSE "raised"]
    /\ UNCHANGED searchOthers

SpStep ==
    \/ SpEnter
    \/ SpLaunch
    \/ SpNewPage
    \/ SpGoto
    \/ SpSearchBox
    \/ SpFill
    \/ SpWaitResults
    \/ SpFirstResult
    \/ SpTitle
    \/ SpPrice
    \/ SpClose
    \/ SpExit
    \/ SpExcept
    \/ SpFinally

InitSearch ==
    /\ InitLoop
    /\ NoParsing
    /\ NoInspection
    /\ NoExecuting
    /\ NoSearching
    /\ NoRequest
    /\ inst = [c \in Calls |-> 0]

\* test_basic.py and main(): result = await search_product_price(product).
NextSearch ==
    \/ \E product_name \in Products : SearchProductPrice(product_name)
    \/ SpStep

SearchSpec == InitSearch /\ [][NextSearch]_vars

\* ================================================== POST /execute ===
\* The result dictionary of a call of execute_goal.
Result(c) == frame[c].result
Modes == {"basic", "ai"}

\* raise HTTPException(status_code=..., detail=...)
HTTPException(status_code, detail) ==
    [type |-> "HTTPException", status_code |-> status_code, detail |-> detail]

\* Any other exception, with str(e).
Exception(text) == [type |-> "Exception", status_code |-> 0, detail |-> <<text>>]

\* A variant of ExceptHandler without the clause `except HTTPException: raise`.
ExceptHandlerAll(e) ==
    [status |-> 500, detail |-> <<"Task execution failed">> \o e.detail]

\* The except clauses of execute_task: an HTTPException is raised again as it
\* is, any other exception becomes HTTPException(500, "Task execution
\* failed: " + str(e)); the response carries the status and the detail.
ExceptHandler(e) ==
    IF e.type = "HTTPException"
    THEN [status |-> e.status_code, detail |-> e.detail]
    ELSE [status |-> 500, detail |-> <<"Task execution failed">> \o e.detail]

\* The request ends with the error response for exception e.
HttpError(e) ==
    [http EXCEPT !.pc = "done", !.status = ExceptHandler(e).status,
                 !.detail = ExceptHandler(e).detail]

\* POST /execute arrives: execute_task up to its first await, or up to its
\* error response when it gets to none.
HttpExecute ==
    /\ http.pc = "idle"
    /\ \E mode \in Modes, key \in BOOLEAN :
          LET req == [http EXCEPT !.mode = mode, !.key = key] IN
          \/ /\ mode = "basic"
             /\ sp' = [NoSearch EXCEPT !.pc = "enter",
                                       !.product_name = "wireless mouse",
                                       !.result = SearchResult("wireless mouse")]
             /\ http' = [req EXCEPT !.pc = "basic"]
             /\ UNCHANGED loopVars
          \/ /\ mode = "ai"
             /\ ~key
             /\ http' = [HttpError(HTTPException(503, <<"AI mode not available">>))
                            EXCEPT !.mode = mode, !.key = key]
             /\ UNCHANGED <<loopVars, sp>>
          \/ /\ mode = "ai"
             /\ key
             /\ http' = [HttpError(Exception("constructor error"))
                            EXCEPT !.mode = mode, !.key = key]
             /\ UNCHANGED <<loopVars, sp>>
          \/ /\ mode = "ai"
             /\ key
             /\ inst' = [inst EXCEPT ![1] = NewDriver(1)]
             /\ drv' = [drv EXCEPT ![NewDriver(1)] = NoSession]
             /\ \E message \in Goals, max_steps \in 1..MaxStepsApi :
                   ExecuteGoal(1, message, max_steps)
             /\ http' = [req EXCEPT !.pc = "ai"]
             /\ UNCHANGED sp
    /\ UNCHANGED <<parseVars, inspectVars, ex>>

\* The awaited core call is over: the TaskResponse built from its result, or
\* the error response for the exception it raised.
HttpRespond ==
    /\ \/ /\ http.pc = "basic"
          /\ sp.pc = "returned"
          /\ http' = [http EXCEPT !.pc = "done", !.status = 200,
                        !.body = [NoBody EXCEPT !.success = sp.result.success,
                                                !.message = sp.result.message,
                                                !.mode = "basic",
                                                !.price = sp.result.price,
                                                !.product = sp.result.product]]
       \/ /\ http.pc = "basic"
          /\ sp.pc = "raised"
          /\ http' = HttpError(Exception(sp.exc))
       \/ /\ http.pc = "ai"
          /\ pc[1] = "returned"
          /\ http' = [http EXCEPT !.pc = "done", !.status = 200,
                        !.body = [NoBody EXCEPT !.success = Result(1).success,
                                                !.message = Result(1).message,
                                                !.mode = "ai",
                                                !.steps_taken = Result(1).steps_taken]]
       \/ /\ http.pc = "ai"
          /\ pc[1] = "raised"
          /\ http' = HttpError(Exception("release error"))
    /\ UNCHANGED <<loopVars, parseVars, inspectVars, ex, sp>>

InitHttp ==
    /\ InitLoop
    /\ NoParsing
    /\ NoInspection
    /\ NoExecuting
    /\ NoSearching
    /\ NoRequest
    /\ inst = [c \in Calls |-> 0]

\* One request: execute_task, and the core call it awaits.
NextHttp ==
    \/ HttpExecute
    \/ HttpRespond
    \/ Step(1)
    \/ SpStep

HttpSpec == InitHttp /\ [][NextHttp]_vars

\* =========================================================== claims ===
\* The call has returned its result and no exception was raised in it.
ReturnedClean(c) == pc[c] = "returned" /\ hist[c].raisedIn = None

\* C1: with max_steps = N >= 0, a planner that never answers done and no
\* exception, execute_goal makes exactly N planner calls in N iterations (never
\* more than N at any time) and returns success = False, steps_taken = N and
\* the message that the maximum of N steps was reached.
C1_ExhaustedAfterMaxSteps ==
    \A c \in Calls :
       /\ hist[c].plans <= frame[c].max_steps
       /\ (ReturnedClean(c) /\ hist[c].doneAt = 0) =>
             /\ hist[c].plans = frame[c].max_steps
             /\ frame[c].step = frame[c].max_steps
             /\ Result(c) = [success |-> FALSE,
                             goal |-> frame[c].goal,
                             steps_taken |-> frame[c].max_steps,
                             message |-> <<"Reached maximum steps", frame[c].max_steps>>]

\* A run of MaxSteps iterations, each with an executed action, that was exhausted.
C1_Witness ==
    \E c \in Calls :
       /\ ReturnedClean(c)
       /\ hist[c].doneAt = 0
       /\ frame[c].max_steps = MaxSteps
       /\ hist[c].execs = MaxSteps
       /\ Result(c).steps_taken = MaxSteps

\* C2: when the first response that parses to done comes on iteration k and no
\* exception is raised, execute_goal returns success = True, steps_taken = k
\* and the message with that action's reasoning, whatever happened in the
\* iterations before.
C2_DoneOnIterationK ==
    \A c \in Calls :
       (ReturnedClean(c) /\ hist[c].doneAt > 0) =>
          /\ hist[c].plans = hist[c].doneAt
          /\ Result(c) = [success |-> TRUE,
                          goal |-> frame[c].goal,
                          steps_taken |-> hist[c].doneAt,
                          message |-> <<"Goal completed", hist[c].doneReason>>]

\* done on iteration 3 after a failed action and a response that did not parse.
C2_Witness ==
    \E c \in Calls :
       /\ ReturnedClean(c)
       /\ hist[c].doneAt = 3
       /\ hist[c].execFails = 1
       /\ hist[c].parseFails = 1
       /\ Result(c).success

\* C3: when a call of execute_goal has ended, close() has been called exactly
\* once on the browser it acquired and stop() exactly once on the playwright
\* driver it acquired.
C3_ReleasedExactlyOnce ==
    \A c \in Calls :
       pc[c] \in EndPc =>
          /\ "browser" \in hist[c].acquired => closeCalls[c] = 1
          /\ "playwright" \in hist[c].acquired => stopCalls[c] = 1

\* execute_action has just returned False to the loop of call c.
ActionFailed(c) ==
    /\ pc[c] \in {"exec", "aw_page"}
    /\ hist'[c].execFails = hist[c].execFails + 1

\* C4: a failed action does not end the run. When execute_action returns False
\* the result is left as it was and the loop goes on to its pause and to the
\* loop head; at the loop head with iterations left the next iteration starts
\* with a new inspection, which leads to a planner call. A run with a failed
\* action in which no exception was raised has ended by done or with all of
\* max_steps iterations made.
C4_FailedStepContinues ==
    /\ [](\A c \in Calls :
            (ReturnedClean(c) /\ hist[c].execFails > 0) =>
               \/ Result(c).success /\ hist[c].doneAt = Result(c).steps_taken
               \/ ~Result(c).success /\ Result(c).steps_taken = frame[c].max_steps)
    /\ [][\A c \in Calls :
            /\ ActionFailed(c) =>
                  pc'[c] = "aw_sleep" /\ frame'[c].result = frame[c].result
            /\ (pc[c] = "aw_sleep" /\ pc'[c] # pc[c]) =>
                  pc'[c] = "loop" /\ frame'[c].result = frame[c].result
            /\ (pc[c] = "loop" /\ pc'[c] # pc[c] /\ frame[c].step < frame[c].max_steps) =>
                  /\ pc'[c] = "aw_title"
                  /\ frame'[c].step = frame[c].step + 1
                  /\ hist'[c].inspections = hist[c].inspections + 1
            /\ (pc[c] = "aw_title" /\ pc'[c] # pc[c]) => pc'[c] \in {"aw_query", "plan"}
            /\ (pc[c] = "aw_query" /\ pc'[c] # pc[c]) => pc'[c] = "plan"
            /\ (pc[c] = "plan" /\ pc'[c] # pc[c]) => hist'[c].plans = hist[c].plans + 1
         ]_vars

\* After a failed action on iteration 1 the planner is asked again on iteration 2.
C4_Witness ==
    \E c \in Calls :
       /\ pc[c] = "parse"
       /\ frame[c].step = 2
       /\ hist[c].execFails = 1
       /\ hist[c].plans = 2
       /\ hist[c].raisedIn = None

\* C5: a response that does not parse to a JSON object (a decode error, or a
\* JSON value that is not an object) is skipped: no action is executed, the
\* provider is not called again, the result is left as it was and the loop
\* goes to its head.
C5_ParseFailureRecoverable ==
    [][\A c \in Calls :
          (pc[c] = "parse" /\ ParseResponse(frame[c].response_text).kind # "dict") =>
             /\ pc'[c] = "loop"
             /\ frame'[c].result = frame[c].result
             /\ hist'[c].execs = hist[c].execs
             /\ hist'[c].plans = hist[c].plans
      ]_vars

\* C6: no exception leaves execute_goal.
C6_NeverRaises == \A c \in Calls : pc[c] # "raised"

\* Every call has inspected, acted on, closed and stopped only what it acquired,
\* and when all calls have ended every acquired browser has been closed.
OwnSessionOnly ==
    /\ \A c \in Calls : hist[c].foreign = {}
    /\ (\A c \in Calls : pc[c] \in EndPc) =>
          \A c \in Calls : "browser" \in hist[c].acquired => closeCalls[c] >= 1

\* C7: two calls of execute_goal in flight on one instance each use and close
\* only the session they acquired themselves, and leave no browser unreleased.
C7_CallsOnOneInstanceIsolated == OwnSessionOnly

\* The outcome that the faults and provider responses of call c alone give.
OwnOutcome(c) ==
    IF hist[c].raisedIn # None
    THEN [success |-> FALSE,
          goal |-> frame[c].goal,
          steps_taken |-> hist[c].plans,
          message |-> <<"Error", IF hist[c].raisedIn = "parse" THEN "AttributeError"
                                 ELSE hist[c].raisedIn>>]
    ELSE IF hist[c].doneAt > 0
    THEN [success |-> TRUE,
          goal |-> frame[c].goal,
          steps_taken |-> hist[c].doneAt,
          message |-> <<"Goal completed", hist[c].doneReason>>]
    ELSE [success |-> FALSE,
          goal |-> frame[c].goal,
          steps_taken |-> frame[c].max_steps,
          message |-> <<"Reached maximum steps", frame[c].max_steps>>]

\* C8: requests in ai mode served together run on instances of their own: no
\* request inspects, acts on, closes or stops a session of another, no browser
\* is left unreleased, and the outcome of a request is the one its own faults
\* and provider responses give.
C8_RequestsIndependent ==
    /\ OwnSessionOnly
    /\ \A r \in Calls, q \in Calls : (r # q /\ inst[r] # 0) => inst[r] # inst[q]
    /\ \A r \in Calls : pc[r] = "returned" => Result(r) = OwnOutcome(r)

\* One request acts on its page while the other closes its browser, both
\* after a first iteration.
C8_Witness ==
    /\ pc[1] = "aw_page"
    /\ pc[2] = "aw_close"
    /\ frame[1].step = 2
    /\ frame[2].step = 2

\* C9: a snapshot has at most 20 elements, none of them a submit input, and
\* the element at position i (from 0) has index i.
C9_SnapshotBounded ==
    snap.done =>
       LET elements == snap.context.elements
       IN  /\ Len(elements) <= 20
           /\ \A k \in 1..Len(elements) :
                 /\ elements[k].index = k - 1
                 /\ ~(elements[k].tag = "input" /\ elements[k].type = "submit")

\* A document of more than 20 elements with a submit input among the first
\* 20, inspected without a fault.
C9_Witness ==
    /\ snap.done
    /\ Len(doc) > 20
    /\ \E k \in 1..10 : doc[k] = Submit
    /\ snap.context.title = "title"
    /\ Len(snap.context.elements) = 19

\* C10: the action parsed from a JSON action object in a fenced code block,
\* with or without a language tag, is the action parsed from the same text
\* unfenced.
C10_FencingKeepsParse == pres.done => pres.fenced = pres.plain

\* C11: whatever happens in it, also a timeout or another fault raised while
\* the browser is started or the page is created, search_product_price lets
\* no exception out: it never ends by raising.
C11_SearchNeverRaises == sp.pc # "raised"

\* C12: an exception raised by search_product_price, by the AIRobotDriver
\* constructor or by execute_goal never leaves execute_task as it is: the
\* response has status 500 and carries the error text; the 503 raised for ai
\* mode without GEMINI_API_KEY passes with its own status; a core call that
\* returned gives 200.
C12_CoreExceptionsBecome500 ==
    http.pc = "done" =>
        /\ http.status \in {200, 500, 503}
        /\ (http.status = 503) = (http.mode = "ai" /\ ~http.key)
        /\ http.status = 503 => http.detail = <<"AI mode not available">>
        /\ http.mode = "basic" =>
              /\ (http.status = 200) = (sp.pc = "returned")
              /\ sp.pc = "raised" =>
                    /\ http.status = 500
                    /\ http.detail = <<"Task execution failed", sp.exc>>
        /\ (http.mode = "ai" /\ http.key) =>
              /\ (http.status = 200) = (pc[1] = "returned")
              /\ pc[1] = "raised" =>
                    /\ http.status = 500
                    /\ http.detail = <<"Task execution failed", "release error">>
              /\ pc[1] = "idle" =>
                    /\ http.status = 500
                    /\ http.detail = <<"Task execution failed", "constructor error">>

\* A request whose core call raised has got its 500 response.
C12_Witness ==
    /\ http.pc = "done"
    /\ http.status = 500
    /\ \/ http.mode = "basic" /\ sp.pc = "raised"
       \/ http.mode = "ai" /\ pc[1] = "raised"

\* C13: between every two consecutive iterations the pause is taken, whatever
\* the earlier iteration's outcome (executor success, executor failure or
\* parse failure): when an iteration starts, there have been as many pauses
\* as iterations before it.
C13_PauseBetweenIterations ==
    [][\A c \in Calls :
          (pc[c] = "loop" /\ pc'[c] \in {"aw_title", "plan"})
              => hist[c].sleeps = frame[c].step]_vars

\* The collaborator calls a call of execute_goal has made.
CallsMade(c) == <<hist[c].inspections, hist[c].plans, hist[c].execs>>

\* C14: an unrecoverable fault ends the run at once in Failed. After a fault
\* in the acquisition of the session no inspector, planner or executor call
\* has been made and steps_taken is 0; after a fault of the completion
\* provider on iteration k, k inspections and k planner calls have been made
\* and steps_taken is k; from the fault on no further collaborator call is
\* made and the result stays success = false with the error text.
C14_FaultEndsRunAtOnce ==
    /\ [](\A c \in Calls :
            /\ hist[c].raisedIn \in {"start", "launch", "new_page"} =>
                  /\ CallsMade(c) = <<0, 0, 0>>
                  /\ Result(c).steps_taken = 0
            /\ hist[c].raisedIn = "generate_content" =>
                  /\ hist[c].plans = Result(c).steps_taken
                  /\ hist[c].inspections = Result(c).steps_taken
                  /\ Result(c).steps_taken = frame[c].step
                  /\ Result(c).steps_taken >= 1
            /\ hist[c].raisedIn \in {"start", "launch", "new_page", "generate_content"} =>
                  /\ ~Result(c).success
                  /\ Result(c).message = <<"Error", hist[c].raisedIn>>
                  /\ pc[c] \in {"finally", "aw_close", "aw_stop", "returned", "raised"})
    /\ [][\A c \in Calls :
            hist[c].raisedIn # None =>
               /\ CallsMade(c)' = CallsMade(c)
               /\ frame'[c].result = frame[c].result
               /\ hist'[c].raisedIn = hist[c].raisedIn]_vars

\* The provider raised on iteration 2 and the run has returned its outcome.
C14_Witness ==
    \E c \in Calls :
       /\ pc[c] = "returned"
       /\ hist[c].raisedIn = "generate_content"
       /\ Result(c).steps_taken = 2
       /\ ~Result(c).success

\* C15: the collaborator calls of a run are strictly ordered. On iteration k
\* there is exactly one inspection, then exactly one planner call, then at
\* most one executor call; an inspection starts only at the loop head, with
\* every earlier iteration's planner call made and its executor call over;
\* the executor is called only with a response parsed to an action other
\* than done; once done is recognised no further call is made and the page
\* is not touched.
C15_CallsStrictlyOrdered ==
    /\ [](\A c \in Calls :
            LET k == frame[c].step
                h == hist[c]
            IN  /\ h.inspections = k
                /\ pc[c] \in {"aw_title", "aw_query", "plan"} =>
                      h.plans = k - 1 /\ h.execs + h.parseFails = k - 1
                /\ pc[c] \in {"parse", "exec"} =>
                      h.plans = k /\ h.execs + h.parseFails = k - 1
                /\ pc[c] \in {"aw_page", "aw_sleep", "loop"} =>
                      h.plans = k /\ h.execs + h.parseFails = k
                /\ pc[c] \in {"finally", "aw_close", "aw_stop", "returned", "raised"} =>
                      h.plans = k /\ h.execs + h.parseFails \in {k - 1, k}
                /\ pc[c] = "exec" =>
                      /\ frame[c].action.kind = "dict"
                      /\ frame[c].action.action # "done"
                /\ pc[c] = "aw_page" => frame[c].action.action # "done")
    /\ [][\A c \in Calls :
            /\ hist'[c].inspections # hist[c].inspections =>
                  pc[c] = "loop" /\ hist'[c].inspections = hist[c].inspections + 1
            /\ hist'[c].plans # hist[c].plans =>
                  pc[c] = "plan" /\ hist'[c].plans = hist[c].plans + 1
            /\ hist'[c].execs # hist[c].execs =>
                  /\ pc[c] = "exec"
                  /\ hist[c].lastParse = "ok"
                  /\ hist'[c].execs = hist[c].execs + 1
            /\ hist[c].doneAt > 0 =>
                  /\ CallsMade(c)' = CallsMade(c)
                  /\ pc'[c] \in {"parse", "finally", "aw_close", "aw_stop",
                                 "returned", "raised"}]_vars

\* The run is at the loop head after three iterations, each with one
\* inspection, one planner call and one executor call.
C15_Witness ==
    \E c \in Calls :
       /\ pc[c] = "loop"
       /\ frame[c].step = 3
       /\ CallsMade(c) = <<3, 3, 3>>

\* Actions whose branch of execute_action uses the target.
UsesTarget(action) == action.action \in {"navigate", "click", "wait"}

PriorityField(dom) ==
    LET D == 1..Len(dom)
        kw == {i \in D : SelKeywords(dom[i])}
        ids == {i \in D : SelIdSearch(dom[i])}
        se == {i \in D : SelTypeSearch(dom[i])}
        tx == {i \in D : SelTypeText(dom[i])}
    IN  IF kw # {} THEN Least(kw)
        ELSE IF ids # {} THEN Least(ids)
        ELSE IF se # {} THEN Least(se)
        ELSE IF tx # {} THEN Least(tx)
        ELSE 0

\* C17: a type action fills the field that comes first in the priority order
\* field-keywords name, id containing "search", type search, type text,
\* whatever the order of these fields in the document.
C17_TypeFieldByPriority ==
    (ex.done /\ ex.action.action = "type" /\ ex.res.value) =>
        ex.res.field = PriorityField(ex.dom)

C20_ClickIndexIsSnapshotIndex ==
    (ex.done /\ ex.action.action = "click" /\ IsDigit(ex.action.target) /\ ex.fault = "ok") =>
        LET elements == GetPageContext(1, 1, ex.dom, TRUE, TRUE).elements
            i == ToInt(ex.action.target)
        IN  i < Len(elements) =>
               /\ ex.res.clicked # 0
               /\ elements[i + 1] = ElementInfo(ex.dom[ex.res.clicked], i)

\* The positions of the document whose elements the snapshot has to list: the
\* interactive ones that are not submit inputs and whose attributes can be read.
Kept(dom) ==
    {i \in 1..Len(dom) : InspectSelector(dom[i]) /\ ~SkipElement(dom[i]) /\ ~dom[i].bad}

\* C19: inspection is never a hard failure. Whatever the inspection meets, the
\* loop goes from it to the planner call and no exception is recorded. When
\* page.title() or the query fails, the snapshot has the URL and an empty
\* element list. When reading one element fails, that element alone is left
\* out: the snapshot lists every other interactive element of the document.
C19_InspectionNeverFails ==
    /\ [](\A c \in Calls :
            LET context == frame[c].context
                seen == hist[c].seen
            IN  pc[c] = "plan" =>
                  /\ seen.fault \in {"title", "query"} =>
                        /\ context.url # 0
                        /\ context.elements = <<>>
                  /\ seen.fault = "ok" =>
                        /\ context.url # 0
                        /\ Len(context.elements) = Cardinality(Kept(seen.dom))
                        /\ \A i \in Kept(seen.dom) :
                              \E j \in 1..Len(context.elements) :
                                 context.elements[j] = ElementInfo(seen.dom[i], j - 1))
    /\ [][\A c \in Calls :
            /\ (pc[c] \in {"aw_title", "aw_query"} /\ pc'[c] # pc[c]) =>
                  /\ pc'[c] \in {"aw_query", "plan"}
                  /\ hist'[c].raisedIn = hist[c].raisedIn
            /\ (pc[c] = "plan" /\ pc'[c] # pc[c]) =>
                  hist'[c].plans = hist[c].plans + 1]_vars

\* The planner is about to be called with the snapshot of a document that has
\* a detached element: the snapshot lists the other one.
C19_Witness ==
    \E c \in Calls :
       /\ pc[c] = "plan"
       /\ hist[c].seen.fault = "ok"
       /\ \E i \in 1..Len(hist[c].seen.dom) : hist[c].seen.dom[i].bad
       /\ Len(frame[c].context.elements) = 1

\* The positions of the document that are among the first MaxElements matches
\* of the interactive-element query.
FirstMatches(dom) ==
    {i \in 1..Len(dom) :
        /\ InspectSelector(dom[i])
        /\ Cardinality({j \in 1..i : InspectSelector(dom[j])}) <= MaxElements}

\* C21: the element list of a snapshot is exactly the elements among the first
\* 20 matches of the interactive-element query that are not submit inputs and
\* whose attributes could be read, in document order and numbered from 0; a
\* match after the 20th is never listed, also when fewer than 20 are listed.
C21_SnapshotIsFilteredFirstMatches ==
    (snap.done /\ snap.context.title # None) =>
        LET elements == snap.context.elements
            listed == FirstMatches(doc) \cap Kept(doc)
        IN  /\ Len(elements) = Cardinality(listed)
            /\ \A i \in listed :
                  LET n == Cardinality({j \in listed : j < i})
                  IN  elements[n + 1] = ElementInfo(doc[i], n)

\* A document with more than 20 matches and a submit input among the first
\* 20: the snapshot lists fewer than 20 elements and leaves out a later match
\* that it could have listed.
C21_Witness ==
    /\ snap.done
    /\ snap.context.title # None
    /\ Len(snap.context.elements) < MaxElements
    /\ Kept(doc) \ FirstMatches(doc) # {}

\* C22: a run of execute_goal that comes after an earlier run on the same
\* instance never inspects, acts on, closes or stops the page, browser or
\* playwright driver the earlier run acquired, also when it fails before it
\* has acquired its own.
C22_LaterRunLeavesEarlierSession ==
    \A c \in Calls :
       (\E d \in Calls : d < c /\ pc[d] \in EndPc) => hist[c].foreign = {}

\* The selectors of a loop that win: a search box selector whose element
\* appears, a title selector whose element has a non-blank text, a price
\* selector whose element has a non-empty text.
BoxWinners == {i \in DOMAIN sp.met : sp.met[i] = TRUE}
TitleWinners == {i \in DOMAIN sp.met : sp.met[i] = "text"}
PriceWinners == {i \in DOMAIN sp.met : sp.met[i] \in {" ", "text"}}

\* C23: each selector loop of search_product_price is first-match-wins in
\* list order. The search box is the one of the first selector that appears,
\* and without any the search is given up; the title is the text of the first
\* selector with a non-blank text, else "Unknown"; the price is the (stripped)
\* text of the first selector with a non-empty text, else there is no price;
\* what the selectors after the winner would find makes no difference.
C23_FirstMatchWins ==
    /\ sp.pc = "fill" =>
          /\ BoxWinners # {}
          /\ sp.search_box = Least(BoxWinners)
    /\ (sp.pc = "exit" /\ sp.met # <<>>) =>
          /\ BoxWinners = {}
          /\ sp.search_box = 0
    /\ sp.pc = "price" =>
          /\ TitleWinners = {} => sp.product_title = "Unknown"
          /\ TitleWinners # {} =>
                LET w == Least(TitleWinners)
                IN  /\ sp.product_title = TitleOf[w]
                    /\ \A texts \in [TitleSelectors -> ElementTexts] :
                          (\A i \in 1..w : texts[i] = sp.met[i]) =>
                              ProductTitle(texts, 1) = sp.product_title
    /\ sp.pc = "close" =>
          /\ PriceWinners = {} => ~sp.result.success /\ sp.result.price = None
          /\ PriceWinners # {} =>
                LET w == Least(PriceWinners)
                IN  /\ sp.result.success
                    /\ sp.result.price = IF sp.met[w] = "text" THEN PriceOf[w] ELSE ""
                    /\ \A texts \in [PriceSelectors -> ElementTexts] :
                          (\A i \in 1..w : texts[i] = sp.met[i]) =>
                              PriceText(texts, 1, None) = PriceText(sp.met, 1, None)

\* The title loop has passed an absent and a blank element and taken the text
\* of the third selector, though the fifth has a text too.
C23_Witness ==
    /\ sp.pc = "price"
    /\ sp.met[1] = "absent"
    /\ sp.met[2] = " "
    /\ sp.met[3] = "text"
    /\ sp.met[5] = "text"
    /\ sp.product_title = TitleOf[3]

\* C24: every result that search_product_price returns has success true
\* exactly when price is not None, has the product name that was requested,
\* and has a message that is not empty.
C24_ResultInvariants ==
    sp.pc = "returned" =>
        /\ sp.result.success = (sp.result.price # None)
        /\ sp.result.product = sp.product_name
        /\ sp.result.message # <<"">>
        /\ sp.result.message # <<>>

\* A search for the other product has returned a price.
C24_Witness ==
    /\ sp.pc = "returned"
    /\ sp.product_name = "usb hub"
    /\ sp.result.success
    /\ sp.result.price = PriceOf[2]

====
